---------------------------- MODULE Spec2Model ----------------------------
(***************************************************************************)
(* The news bot of llm-x-integration: one process run that loads its       *)
(* configuration, picks a topic, fetches a fact record, asks the primary   *)
(* provider (Gemini) for a tweet, retries / falls back to the secondary    *)
(* provider (Perplexity) and posts the text to X.                          *)
(*                                                                         *)
(* Two builds of package main are in the repository: src/main.go (one      *)
(* topic, no fallback) and src/unnamed/part_000 (seven-topic rotation with *)
(* escalated retry and fallback).  The variable build says which one runs. *)
(*                                                                         *)
(* A Go string is modelled as the sequence of its bytes; len() and [:n]    *)
(* are byte operations exactly as in Go.                                   *)
(***************************************************************************)
EXTENDS Integers, Sequences, FiniteSets, TLC

VARIABLES
    build,      \* "main.go" or "part_000": which package main is running
    env,        \* the process environment: key -> is it non-empty
    pc,         \* position of the (single) goroutine
    config,     \* *Config after loadConfig: key -> is it non-empty
    tick,       \* time.Now().Unix() read by Run
    gen,        \* name of the generator function Run dispatched to
    league,     \* league code passed to the generator ("" when none)
    leagueName, \* hashtag name passed to the generator
    fact,       \* match / article the generator fetched (NoFact before)
    content,    \* the generator's local variable content / its returned text
    err,        \* the generator's returned error (<<>> is nil)
    lastRaw,    \* text of the last provider response that carried one
    calls,      \* log of external calls, in order
    runErr,     \* error returned by Run (<<>> is nil)
    resp,       \* what the posting API answered to postToTwitter (NoResp before)
    logged,     \* lines written by log.Fatalf
    exitCode    \* process exit code (-1 while running)

vars == <<build, env, pc, config, tick, gen, league, leagueName, fact,
          content, err, lastRaw, calls, runErr, resp, logged, exitCode>>

-----------------------------------------------------------------------------
(* Program constants *)

MaxLen == 280
CutLen == 277
MinLen == 100
DateLen == 10
NumTopics == 7
StatusCreated == 201

(* Bounds of the model *)

MaxPad == 2
Slack == 1
MaxItems == 2
MaxTick == 7

-----------------------------------------------------------------------------
(* Bytes and strings *)

SP == " "
QUOTE == "\""
DOT == "."
A == "a"
W1 == "w1"   \* lead byte of a two-byte UTF-8 character
W2 == "w2"   \* its continuation byte

Rep(x, n) == [i \in 1..n |-> x]
Wide(n) == [i \in 1..(2 * n) |-> IF i % 2 = 1 THEN W1 ELSE W2]

Ellipsis == <<DOT, DOT, DOT>>

\* utf8.RuneCountInString: continuation bytes do not start a character
RuneCount(s) == Cardinality({i \in 1..Len(s) : s[i] # W2})

RECURSIVE TrimLeft(_, _)
TrimLeft(s, cutset) ==
    IF s # <<>> /\ Head(s) \in cutset THEN TrimLeft(Tail(s), cutset) ELSE s

RECURSIVE TrimRight(_, _)
TrimRight(s, cutset) ==
    IF s # <<>> /\ s[Len(s)] \in cutset
    THEN TrimRight(SubSeq(s, 1, Len(s) - 1), cutset)
    ELSE s

\* strings.Trim(s, cutset): every leading and trailing byte of cutset goes
Trim(s, cutset) == TrimRight(TrimLeft(s, cutset), cutset)

\* strings.TrimSpace(s)
TrimSpace(s) == Trim(s, {SP})

TruncateNever(c) == c
TruncateNoEllipsis(c) == IF Len(c) > MaxLen THEN SubSeq(c, 1, CutLen) ELSE c

\* if len(content) > 280 { content = content[:277] + "..." }
Truncate(c) == IF Len(c) > MaxLen THEN SubSeq(c, 1, CutLen) \o Ellipsis ELSE c

\* only one double quote is taken off each end
NormalizeGeminiOneLayer(raw) ==
    LET t == TrimSpace(raw) IN
    Truncate(IF Len(t) >= 2 /\ t[1] = QUOTE /\ t[Len(t)] = QUOTE
             THEN SubSeq(t, 2, Len(t) - 1)
             ELSE t)

\* Gemini paths: TrimSpace, Trim(content, "\""), truncate
NormalizeGemini(raw) == Truncate(Trim(TrimSpace(raw), {QUOTE}))

\* Perplexity paths: TrimSpace, truncate (quotes are kept)
NormalizePerplexity(raw) == Truncate(TrimSpace(raw))

-----------------------------------------------------------------------------
(* Inputs *)

AsciiLens == {0} \cup ((MinLen - Slack)..MinLen) \cup ((MaxLen - Slack)..(MaxLen + Slack))
WideLens == {MinLen \div 2} \cup ((MaxLen \div 2)..((MaxLen \div 2) + Slack))
Bodies == {Rep(A, n) : n \in AsciiLens} \cup {Wide(n) : n \in WideLens}

Pad(o, q, i, body) ==
    Rep(SP, o) \o Rep(QUOTE, q) \o Rep(SP, i) \o body
        \o Rep(SP, i) \o Rep(QUOTE, q) \o Rep(SP, o)

\* paddings of at most MaxPad bytes a side: outer spaces, quotes, inner spaces
Pads ==
    {p \in (0..MaxPad) \X (0..MaxPad) \X (0..MaxPad) : p[1] + p[2] + p[3] <= MaxPad}

\* texts a provider can answer with
RawTexts == {Pad(p[1], p[2], p[3], b) : p \in Pads, b \in Bodies}

NoFact == [kind |-> "none"]

Match(home, hs, as, away, date) ==
    [kind |-> "match", home |-> home, homeScore |-> hs, awayScore |-> as,
     away |-> away, utcDate |-> date]

\* finished matches football-data.org can list; utcDate is a string of any length
Matches ==
    { Match("Liverpool", 2, 1, "Everton", Rep("d", 2 * DateLen)),
      Match("Arsenal", 0, 0, "Chelsea", Rep("d", DateLen)),
      Match("Leeds", 1, 3, "Fulham", Rep("d", DateLen - 1)) }

Article(title, desc, source) ==
    [kind |-> "article", title |-> title, description |-> desc, source |-> source]

Articles ==
    { Article("BTC up", "Bitcoin rallies", "CoinDesk"),
      Article("ETH fork", "", "") }

SeqsUpTo(S, n) == UNION {[1..k -> S] : k \in 0..n}

Nil == <<>>
Wrap(msg, e) == <<msg>> \o e

RequiredKeysMainGo ==
    {"GOOGLE_API_KEY", "X_API_KEY", "X_API_KEY_SECRET", "X_ACCESS_TOKEN",
     "X_ACCESS_TOKEN_SECRET", "FOOTBALL_DATA_API_KEY"}
EnvKeys ==
    RequiredKeysMainGo \cup {"NEWS_API_KEY", "PERPLEXITY_API_KEY", "LIVERPOOL_NEWS_PROMPT"}

\* process environments (key -> is it non-empty): everything set, or exactly
\* one key empty
Envs == {[k \in EnvKeys |-> TRUE]} \cup
        {[k \in EnvKeys |-> k # missing] : missing \in EnvKeys}

-----------------------------------------------------------------------------
(* Call log *)

\* One entry per call of a backend function:
\*   fn        "football-data", "newsapi", "gemini", "perplexity" or "x"
\*   sent      a network request went out
\*   template  which prompt was built
\*   leagueName, fact  the topic name and fact record the call was given
\*   text      the text handed to the publisher / returned by the fallback function
\*   err       the error the call returned (Nil: none)
Call(fn, sent, template, lname, f, text, e) ==
    [fn |-> fn, sent |-> sent, template |-> template, leagueName |-> lname,
     fact |-> f, text |-> text, err |-> e]

\* the fact fields a prompt embeds: a match with match.UtcDate[:10], an article as is
PromptFact(f) ==
    IF f.kind = "match" THEN [f EXCEPT !.utcDate = SubSeq(@, 1, DateLen)] ELSE f

CallsTo(fn) == {i \in 1..Len(calls) : calls[i].fn = fn}

-----------------------------------------------------------------------------
(* Initial state: the process has just started *)

\* no request has been posted
NoResp == [kind |-> "none", status |-> 0, hasErrors |-> FALSE]

NilConfig == [k \in EnvKeys |-> FALSE]

Init ==
    /\ build \in {"main.go", "part_000"}
    /\ env \in Envs
    /\ pc = "main"
    /\ config = NilConfig
    /\ tick = 0
    /\ gen = ""
    /\ league = ""
    /\ leagueName = ""
    /\ fact = NoFact
    /\ content = <<>>
    /\ err = Nil
    /\ lastRaw = <<>>
    /\ calls = <<>>
    /\ runErr = Nil
    /\ resp = NoResp
    /\ logged = <<>>
    /\ exitCode = -1

\* the line is written and the process exits with status 0
FatalfExitZero(line) ==
    /\ logged' = Append(logged, line)
    /\ exitCode' = 0
    /\ pc' = "exited"

\* log.Fatalf: write the line, exit with status 1
Fatalf(line) ==
    /\ logged' = Append(logged, line)
    /\ exitCode' = 1
    /\ pc' = "exited"

\* a run-time panic (slice bounds out of range): the Go runtime exits with status 2
Panic ==
    /\ pc' = "panicked"
    /\ exitCode' = 2

-----------------------------------------------------------------------------
(* main: loadConfig, NewNewsBot *)

KeysRead ==
    IF build = "main.go"
    THEN RequiredKeysMainGo \cup {"LIVERPOOL_NEWS_PROMPT"}
    ELSE EnvKeys

\* the checks of loadConfig without the one of NewsAPIKey
ConfigErrorNoNews(c) ==
    IF ~c["GOOGLE_API_KEY"] THEN <<"GOOGLE_API_KEY is required">>
    ELSE IF ~c["X_API_KEY"] \/ ~c["X_API_KEY_SECRET"] \/ ~c["X_ACCESS_TOKEN"]
            \/ ~c["X_ACCESS_TOKEN_SECRET"]
         THEN <<"all X API credentials are required">>
    ELSE IF ~c["FOOTBALL_DATA_API_KEY"] THEN <<"FOOTBALL_DATA_API_KEY is required">>
    ELSE Nil

\* the first failing check of loadConfig, Nil when all pass
ConfigError(c) ==
    IF ~c["GOOGLE_API_KEY"] THEN <<"GOOGLE_API_KEY is required">>
    ELSE IF ~c["X_API_KEY"] \/ ~c["X_API_KEY_SECRET"] \/ ~c["X_ACCESS_TOKEN"]
            \/ ~c["X_ACCESS_TOKEN_SECRET"]
         THEN <<"all X API credentials are required">>
    ELSE IF ~c["FOOTBALL_DATA_API_KEY"] THEN <<"FOOTBALL_DATA_API_KEY is required">>
    ELSE IF build = "part_000" /\ ~c["NEWS_API_KEY"] THEN <<"NEWS_API_KEY is required">>
    ELSE Nil

\* the Config loadConfig builds from the environment: os.Getenv per key it
\* reads, the default prompt when LIVERPOOL_NEWS_PROMPT is empty
ConfigOf(getenv) ==
    [k \in EnvKeys |->
        IF k = "LIVERPOOL_NEWS_PROMPT" THEN TRUE
        ELSE IF k \in KeysRead THEN getenv[k] ELSE FALSE]

loadConfig ==
    /\ pc = "main"
    /\ LET c == ConfigOf(env)
           e == ConfigError(c)
       IN IF e # Nil
          THEN /\ Fatalf(Wrap("Failed to load configuration", e))
               /\ UNCHANGED config
          ELSE /\ config' = c
               /\ pc' = "newbot"
               /\ UNCHANGED <<logged, exitCode>>
    /\ UNCHANGED <<build, env, resp, tick, gen, league, leagueName, fact, content, err,
                   lastRaw, calls, runErr>>

NewNewsBot ==
    /\ pc = "newbot"
    /\ \E ok \in BOOLEAN :
          IF ok
          THEN /\ pc' = "run"
               /\ UNCHANGED <<logged, exitCode>>
          ELSE Fatalf(Wrap("Failed to create news bot",
                           <<"failed to create Gemini client">>))
    /\ UNCHANGED <<build, env, resp, config, tick, gen, league, leagueName, fact, content,
                   err, lastRaw, calls, runErr>>

-----------------------------------------------------------------------------
(* Run: topic selection *)

Crypto == "crypto"

\* the switch of Run over time.Now().Unix() % 7
Rotation ==
    <<[league |-> "PL",  name |-> "PremierLeague"],
      [league |-> "PD",  name |-> "LaLiga"],
      [league |-> "BL1", name |-> "Bundesliga"],
      [league |-> "SA",  name |-> "SerieA"],
      [league |-> "FL1", name |-> "Ligue1"],
      [league |-> "IRL", name |-> "IrishPremierDivision"],
      [league |-> Crypto, name |-> ""]>>

\* the case of the switch a tick selects, as an index into Rotation
TopicIndexShifted(t) == ((t + 1) % NumTopics) + 1

TopicIndex(t) == (t % NumTopics) + 1

Run ==
    /\ pc = "run"
    /\ build = "part_000"
    /\ \E t \in 0..MaxTick :
          LET topic == Rotation[TopicIndex(t)] IN
          /\ tick' = t
          /\ league' = topic.league
          /\ leagueName' = topic.name
          /\ gen' = IF topic.league = Crypto THEN "generateCryptoNewsFromAPI"
                    ELSE "generateLeagueNewsFromAPI"
    /\ pc' = "fetch"
    /\ UNCHANGED <<build, env, resp, config, fact, content, err, lastRaw, calls,
                   runErr, logged, exitCode>>

\* Run of main.go: always the Premier League generator
RunMainGo ==
    /\ pc = "run"
    /\ build = "main.go"
    /\ gen' = "generatePremierLeagueNewsFromAPI"
    /\ league' = "PL"
    /\ leagueName' = ""
    /\ pc' = "fetch"
    /\ UNCHANGED <<build, env, resp, config, tick, fact, content, err, lastRaw,
                   calls, runErr, logged, exitCode>>

-----------------------------------------------------------------------------
(* Fact sources *)

\* what an HTTP fact source can answer besides a decoded list: a transport
\* error (timeouts included), a non-200 status, an undecodable body
FetchFailures ==
    {<<"transport error">>, <<"API error">>, <<"decode error">>}

\* the generator returns (text, e)
GenReturn(text, e) ==
    /\ content' = text
    /\ err' = e
    /\ pc' = "returned"

\* the generator goes on with a made-up fact
FetchFailedSubstitute(msg, e) ==
    /\ fact' = Match("Home", 0, 0, "Away", Rep("d", DateLen))
    /\ pc' = "primary"
    /\ UNCHANGED <<content, err>>

\* if err != nil after the fetch: the generator returns "" and the wrapped error
FetchFailed(msg, e) ==
    /\ GenReturn(<<>>, Wrap(msg, e))
    /\ UNCHANGED fact

\* fetchLatestLeagueMatch and the error check of its callers
\* (generateLeagueNewsFromAPI, generatePremierLeagueNewsFromAPI)
fetchLatestLeagueMatch ==
    /\ pc = "fetch"
    /\ gen \in {"generateLeagueNewsFromAPI", "generatePremierLeagueNewsFromAPI"}
    /\ \/ \E e \in FetchFailures :
             /\ calls' = Append(calls, Call("football-data", TRUE, "", "", NoFact, <<>>, e))
             /\ FetchFailed("failed to fetch latest match", e)
       \/ \E ms \in SeqsUpTo(Matches, MaxItems) :
             IF Len(ms) = 0
             THEN /\ calls' = Append(calls, Call("football-data", TRUE, "", "", NoFact,
                                                 <<>>, <<"no matches found">>))
                  /\ FetchFailed("failed to fetch latest match", <<"no matches found">>)
             ELSE /\ calls' = Append(calls, Call("football-data", TRUE, "", "", NoFact,
                                                 <<>>, Nil))
                  /\ fact' = ms[Len(ms)]
                  /\ pc' = "prompt"
                  /\ UNCHANGED <<content, err>>
    /\ UNCHANGED <<build, env, resp, config, tick, gen, league, leagueName, lastRaw, runErr,
                   logged, exitCode>>

\* fetchLatestCryptoNews and the error check of generateCryptoNewsFromAPI
fetchLatestCryptoNews ==
    /\ pc = "fetch"
    /\ gen = "generateCryptoNewsFromAPI"
    /\ \/ \E e \in FetchFailures :
             /\ calls' = Append(calls, Call("newsapi", TRUE, "", "", NoFact, <<>>, e))
             /\ FetchFailed("failed to fetch crypto news", e)
       \/ \E as \in SeqsUpTo(Articles, MaxItems) :
             IF Len(as) = 0
             THEN /\ calls' = Append(calls, Call("newsapi", TRUE, "", "", NoFact,
                                                 <<>>, <<"no crypto news found">>))
                  /\ FetchFailed("failed to fetch crypto news", <<"no crypto news found">>)
             ELSE /\ calls' = Append(calls, Call("newsapi", TRUE, "", "", NoFact,
                                                 <<>>, Nil))
                  /\ fact' = as[1]
                  /\ pc' = "primary"
                  /\ UNCHANGED <<content, err>>
    /\ UNCHANGED <<build, env, resp, config, tick, gen, league, leagueName, lastRaw, runErr,
                   logged, exitCode>>

\* date := match.UtcDate[:10] of the two match generators
sliceDate ==
    /\ pc = "prompt"
    /\ IF Len(fact.utcDate) < DateLen
       THEN Panic
       ELSE /\ pc' = "primary"
            /\ UNCHANGED exitCode
    /\ UNCHANGED <<build, env, resp, config, tick, gen, league, leagueName, fact, content, err,
                   lastRaw, calls, runErr, logged>>

-----------------------------------------------------------------------------
(* Primary provider (Gemini) *)

\* model.GenerateContent fails (err != nil, timeouts included), or answers
\* without a candidate / without a part
GeminiFailures == {<<"error">>, <<"no candidates">>, <<"no parts">>}

\* the retry is given another record than the first attempt
GeminiCallOtherFact(template, e) ==
    Call("gemini", TRUE, template, leagueName,
         IF template = "leagueRetry"
         THEN PromptFact([fact EXCEPT !.home = "Other"])
         ELSE PromptFact(fact),
         <<>>, e)

\* the log entry of a call of model.GenerateContent with the prompt of a template
GeminiCall(template, e) ==
    Call("gemini", TRUE, template, leagueName, PromptFact(fact), <<>>, e)

NeedsRetryNever(c) == FALSE

\* if len(content) < 100
NeedsRetry(c) == Len(c) < MinLen

RetryContentAppended(old, raw) == Truncate(old \o NormalizeGemini(raw))

\* the retry assigns content anew from the retry's response
RetryContent(old, raw) == NormalizeGemini(raw)

\* generateLeagueNewsFromAPI: first attempt
generateLeagueNewsFromAPI ==
    /\ pc = "primary"
    /\ gen = "generateLeagueNewsFromAPI"
    /\ \/ \E f \in GeminiFailures :
             /\ calls' = Append(calls, GeminiCall("league", f))
             /\ pc' = "fallback"
             /\ UNCHANGED <<content, err, lastRaw>>
       \/ \E raw \in RawTexts :
             LET c == NormalizeGemini(raw) IN
             /\ calls' = Append(calls, GeminiCall("league", Nil))
             /\ lastRaw' = raw
             /\ IF NeedsRetry(c)
                THEN /\ content' = c
                     /\ pc' = "retry"
                     /\ UNCHANGED err
                ELSE GenReturn(c, Nil)
    /\ UNCHANGED <<build, env, resp, config, tick, gen, league, leagueName, fact, runErr,
                   logged, exitCode>>

\* generateLeagueNewsFromAPI: the retry with the stronger prompt
generateLeagueNewsRetry ==
    /\ pc = "retry"
    /\ \/ \E f \in GeminiFailures :
             /\ calls' = Append(calls, GeminiCall("leagueRetry", f))
             /\ pc' = "fallback"
             /\ UNCHANGED <<content, err, lastRaw>>
       \/ \E raw \in RawTexts :
             /\ calls' = Append(calls, GeminiCall("leagueRetry", Nil))
             /\ lastRaw' = raw
             /\ GenReturn(RetryContent(content, raw), Nil)
    /\ UNCHANGED <<build, env, resp, config, tick, gen, league, leagueName, fact, runErr,
                   logged, exitCode>>

\* generateCryptoNewsFromAPI after the fetch
generateCryptoNewsFromAPI ==
    /\ pc = "primary"
    /\ gen = "generateCryptoNewsFromAPI"
    /\ \/ \E f \in GeminiFailures :
             /\ calls' = Append(calls, GeminiCall("crypto", f))
             /\ pc' = "fallback"
             /\ UNCHANGED <<content, err, lastRaw>>
       \/ \E raw \in RawTexts :
             /\ calls' = Append(calls, GeminiCall("crypto", Nil))
             /\ lastRaw' = raw
             /\ GenReturn(NormalizeGemini(raw), Nil)
    /\ UNCHANGED <<build, env, resp, config, tick, gen, league, leagueName, fact, runErr,
                   logged, exitCode>>

\* generatePremierLeagueNewsFromAPI (main.go) after the fetch: no fallback
generatePremierLeagueNewsFromAPI ==
    /\ pc = "primary"
    /\ gen = "generatePremierLeagueNewsFromAPI"
    /\ \/ /\ calls' = Append(calls, GeminiCall("premierLeague", <<"error">>))
          /\ GenReturn(<<>>, Wrap("failed to generate summary", <<"error">>))
          /\ UNCHANGED lastRaw
       \/ \E f \in {<<"no candidates">>, <<"no parts">>} :
             /\ calls' = Append(calls, GeminiCall("premierLeague", f))
             /\ GenReturn(<<>>, <<"no content generated">>)
             /\ UNCHANGED lastRaw
       \/ \E raw \in RawTexts :
             /\ calls' = Append(calls, GeminiCall("premierLeague", Nil))
             /\ lastRaw' = raw
             /\ GenReturn(NormalizeGemini(raw), Nil)
    /\ UNCHANGED <<build, env, resp, config, tick, gen, league, leagueName, fact, runErr,
                   logged, exitCode>>

-----------------------------------------------------------------------------
(* Fallback provider (Perplexity) *)

\* client.Do fails (timeouts included), non-200 status, undecodable body,
\* no choices
PerplexityFailures ==
    {<<"failed to call Perplexity API">>, <<"Perplexity API error">>,
     <<"failed to decode Perplexity response">>,
     <<"no choices returned from Perplexity">>}

ReturnFallbackRewrapped(r) ==
    GenReturn(r.text, IF r.err # Nil THEN Wrap("fallback failed", r.err) ELSE Nil)

\* a failed fallback gives way to the text the generator still holds
ReturnFallbackOrFirst(r) ==
    IF r.err # Nil /\ content # <<>>
    THEN GenReturn(content, Nil)
    ELSE GenReturn(r.text, r.err)

\* a failed fallback sends the generator back to the primary
ReturnFallbackThenPrimary(r) ==
    IF r.err # Nil
    THEN /\ pc' = "primary"
         /\ UNCHANGED <<content, err>>
    ELSE GenReturn(r.text, r.err)

\* return nb.fetchPerplexity...Tweet(...): the generator hands the fallback's
\* pair (text, err) on unchanged
ReturnFallback(r) == GenReturn(r.text, r.err)

\* the request goes out whether or not the key is set
PerplexityKeyUnchecked(template, lname) ==
    \/ \E e \in PerplexityFailures :
         LET r == [text |-> <<>>, err |-> e] IN
         /\ calls' = Append(calls, Call("perplexity", TRUE, template, lname,
                                        PromptFact(fact), r.text, r.err))
         /\ ReturnFallback(r)
         /\ UNCHANGED lastRaw
    \/ \E raw \in RawTexts :
         LET r == [text |-> NormalizePerplexity(raw), err |-> Nil] IN
         /\ calls' = Append(calls, Call("perplexity", TRUE, template, lname,
                                        PromptFact(fact), r.text, r.err))
         /\ lastRaw' = raw
         /\ ReturnFallback(r)

\* the body shared by fetchPerplexityFootballTweet and fetchPerplexityCryptoTweet
\* (the football prompt slices match.UtcDate[:10] again; sliceDate has passed)
Perplexity(template, lname) ==
    IF ~config["PERPLEXITY_API_KEY"]
    THEN LET r == [text |-> <<>>, err |-> <<"Perplexity API key not set">>] IN
         /\ calls' = Append(calls, Call("perplexity", FALSE, template, lname,
                                        PromptFact(fact), r.text, r.err))
         /\ ReturnFallback(r)
         /\ UNCHANGED lastRaw
    ELSE \/ \E e \in PerplexityFailures :
              LET r == [text |-> <<>>, err |-> e] IN
              /\ calls' = Append(calls, Call("perplexity", TRUE, template, lname,
                                             PromptFact(fact), r.text, r.err))
              /\ ReturnFallback(r)
              /\ UNCHANGED lastRaw
         \/ \E raw \in RawTexts :
              LET r == [text |-> NormalizePerplexity(raw), err |-> Nil] IN
              /\ calls' = Append(calls, Call("perplexity", TRUE, template, lname,
                                             PromptFact(fact), r.text, r.err))
              /\ lastRaw' = raw
              /\ ReturnFallback(r)

fetchPerplexityFootballTweet ==
    /\ pc = "fallback"
    /\ gen = "generateLeagueNewsFromAPI"
    /\ Perplexity("football", leagueName)
    /\ UNCHANGED <<build, env, resp, config, tick, gen, league, leagueName, fact, runErr,
                   logged, exitCode>>

fetchPerplexityCryptoTweet ==
    /\ pc = "fallback"
    /\ gen = "generateCryptoNewsFromAPI"
    /\ Perplexity("crypto", "")
    /\ UNCHANGED <<build, env, resp, config, tick, gen, league, leagueName, fact, runErr,
                   logged, exitCode>>

-----------------------------------------------------------------------------
(* Run after the generator returned; postToTwitter; main's exit *)

GenerateFailedMsg ==
    IF build = "main.go" THEN "failed to generate Premier League news"
    ELSE "failed to generate news"

RunGenerateErrorOpaque(e) == <<GenerateFailedMsg>>

\* fmt.Errorf("failed to generate news: %v", err)
RunGenerateError(e) == Wrap(GenerateFailedMsg, e)

\* if err != nil { return fmt.Errorf("failed to generate news: %v", err) }
RunCheckGenerated ==
    /\ pc = "returned"
    /\ IF err # Nil
       THEN /\ runErr' = RunGenerateError(err)
            /\ pc' = "runReturned"
       ELSE /\ pc' = "post"
            /\ UNCHANGED runErr
    /\ UNCHANGED <<build, env, resp, config, tick, gen, league, leagueName, fact, content,
                   err, lastRaw, calls, logged, exitCode>>

\* answers of the posting API that reach the status check
PostStatuses == {StatusCreated, 403}

\* a rejection is always reported with the raw body
PostErrorRawBodyOnly(r) ==
    IF r.kind = "transport" THEN <<"failed to make request">>
    ELSE IF r.kind = "read" THEN <<"failed to read response">>
    ELSE IF r.kind = "unparseable" THEN <<"failed to parse response">>
    ELSE IF r.status # StatusCreated THEN <<"X API error", r.status, "raw body">>
    ELSE Nil

\* the error postToTwitter returns for an answer (Nil on success)
PostError(r) ==
    IF r.kind = "transport" THEN <<"failed to make request">>
    ELSE IF r.kind = "read" THEN <<"failed to read response">>
    ELSE IF r.kind = "unparseable" THEN <<"failed to parse response">>
    ELSE IF r.status # StatusCreated
         THEN IF r.hasErrors
              THEN <<"X API error", r.status, "first error message">>
              ELSE <<"X API error", r.status, "raw body">>
    ELSE Nil

PostAnswers ==
    {[kind |-> k, status |-> 0, hasErrors |-> FALSE] :
        k \in {"transport", "read", "unparseable"}}
    \cup {[kind |-> "parsed", status |-> st, hasErrors |-> h] :
            st \in PostStatuses, h \in BOOLEAN}

\* a failed post is tried again
AfterPostRetry(e) ==
    /\ runErr' = Nil
    /\ pc' = IF e # Nil THEN "post" ELSE "runReturned"

\* Run after postToTwitter: a wrapped error, or nil; Run returns either way
AfterPost(e) ==
    /\ runErr' = IF e # Nil THEN Wrap("failed to post to X", e) ELSE Nil
    /\ pc' = "runReturned"

\* the err field of a call that has not returned
Pending == <<"pending">>

\* err = nb.postToTwitter(content) and the rest of Run.  nb.httpClient is the
\* oauth1 client as NewNewsBot got it: no Timeout is set on it, so when the
\* posting API takes the request and never answers, Do never returns.
postToTwitter ==
    /\ pc = "post"
    /\ \/ \E r \in PostAnswers :
             LET e == PostError(r) IN
             /\ calls' = Append(calls, Call("x", r.kind # "transport", "", "", NoFact,
                                            content, e))
             /\ resp' = r
             /\ AfterPost(e)
       \/ /\ calls' = Append(calls, Call("x", TRUE, "", "", NoFact, content, Pending))
          /\ pc' = "inDo"
          /\ UNCHANGED <<runErr, resp>>
    /\ UNCHANGED <<build, env, config, tick, gen, league, leagueName, fact, content,
                   err, lastRaw, logged, exitCode>>

\* main after bot.Run()
mainExit ==
    /\ pc = "runReturned"
    /\ IF runErr # Nil
       THEN Fatalf(Wrap("Bot execution failed", runErr))
       ELSE /\ exitCode' = 0
            /\ pc' = "exited"
            /\ UNCHANGED logged
    /\ UNCHANGED <<build, env, resp, config, tick, gen, league, leagueName, fact, content,
                   err, lastRaw, calls, runErr>>

-----------------------------------------------------------------------------

Next ==
    \/ loadConfig
    \/ NewNewsBot
    \/ Run
    \/ RunMainGo
    \/ fetchLatestLeagueMatch
    \/ fetchLatestCryptoNews
    \/ sliceDate
    \/ generateLeagueNewsFromAPI
    \/ generateLeagueNewsRetry
    \/ generateCryptoNewsFromAPI
    \/ generatePremierLeagueNewsFromAPI
    \/ fetchPerplexityFootballTweet
    \/ fetchPerplexityCryptoTweet
    \/ RunCheckGenerated
    \/ postToTwitter
    \/ mainExit

Spec == Init /\ [][Next]_vars

-----------------------------------------------------------------------------
(* Vocabulary of the properties *)

Min(S) == CHOOSE x \in S : \A y \in S : x <= y
Max(S) == CHOOSE x \in S : \A y \in S : y <= x

\* the generator Run dispatched to has returned
AfterGen ==
    gen # "" /\ pc \in {"returned", "post", "inDo", "runReturned", "exited"}

\* ... and returned a text as success
GenSucceeded == AfterGen /\ err = Nil

RotationGens == {"generateLeagueNewsFromAPI", "generateCryptoNewsFromAPI"}

ProviderCalls == CallsTo("gemini") \cup CallsTo("perplexity")

\* the last provider call of the run; after a success it is the call whose
\* response (lastRaw) became the text
LastProvider == calls[Max(ProviderCalls)]

\* the last response trimmed the way its path trims it
TrimmedLast ==
    IF LastProvider.fn = "gemini" THEN Trim(TrimSpace(lastRaw), {QUOTE})
    ELSE TrimSpace(lastRaw)

Prefix(s, n) == SubSeq(s, 1, IF Len(s) < n THEN Len(s) ELSE n)

\* e carries reason: reason is the tail of the wrapped error e
Carries(e, reason) ==
    \E k \in 1..Len(e) : SubSeq(e, k, Len(e)) = reason

-----------------------------------------------------------------------------
(* C1 *)

\* C1: every text a generation path returns as success has length at most
\* 280 (in bytes, hence in characters), and so has every text handed to
\* postToTwitter.
C1_MaxLen ==
    /\ GenSucceeded => Len(content) <= MaxLen /\ RuneCount(content) <= MaxLen
    /\ \A i \in CallsTo("x") : Len(calls[i].text) <= MaxLen

\* a truncated fallback text was posted
C1_Witness ==
    \E i \in CallsTo("x") :
        /\ Len(calls[i].text) = MaxLen
        /\ Len(lastRaw) > MaxLen
        /\ LastProvider.fn = "perplexity"

(* C2 *)

\* C2: a league (fact-backed) generation that returns a text as success
\* returns one of length at least 100; otherwise it returns an error.
C2_MinLen ==
    GenSucceeded /\ gen = "generateLeagueNewsFromAPI" => Len(content) >= MinLen

(* C3 *)

\* C3 as stated: whenever the raw output of the response is longer than 280,
\* the returned text is the first 277 bytes of the trimmed output followed
\* by "..." and is exactly 280 long.
C3_TruncationLawRaw ==
    GenSucceeded /\ Len(lastRaw) > MaxLen =>
        /\ content = Prefix(TrimmedLast, CutLen) \o Ellipsis
        /\ Len(content) = MaxLen

\* C3 amended: whenever the trimmed output of the response is longer than
\* 280 bytes, the returned text is its first 277 bytes followed by "..." and
\* is exactly 280 bytes long.
C3_TruncationLaw ==
    GenSucceeded /\ Len(TrimmedLast) > MaxLen =>
        /\ content = Prefix(TrimmedLast, CutLen) \o Ellipsis
        /\ Len(content) = MaxLen

\* a response longer than 280 after trimming was returned, cut
C3_Witness ==
    /\ GenSucceeded
    /\ Len(TrimmedLast) > MaxLen
    /\ SubSeq(content, CutLen + 1, MaxLen) = Ellipsis

(* C4 *)

\* the first call of the primary provider in a rotation generator failed
FirstPrimaryFailed ==
    /\ gen \in RotationGens
    /\ CallsTo("gemini") # {}
    /\ calls[Min(CallsTo("gemini"))].err # Nil

\* C4: when the primary's first call fails, the very next call is the
\* fallback function, given the same topic name and the same fact record as
\* the primary, and the generator's result (text and error) is exactly what
\* that call returned.
C4_ProviderFallback ==
    FirstPrimaryFailed =>
        LET g == Min(CallsTo("gemini")) IN
        IF pc = "fallback"
        THEN Len(calls) = g
        ELSE /\ AfterGen
             /\ Len(calls) > g
             /\ calls[g + 1].fn = "perplexity"
             /\ calls[g + 1].fact = calls[g].fact
             /\ calls[g + 1].fact = PromptFact(fact)
             /\ calls[g + 1].leagueName = leagueName
             /\ calls[g + 1].leagueName = calls[g].leagueName
             /\ Cardinality(ProviderCalls) = 2
             /\ content = calls[g + 1].text
             /\ err = calls[g + 1].err

\* the primary failed at once and the fallback's text was returned
C4_Witness ==
    /\ FirstPrimaryFailed
    /\ GenSucceeded
    /\ content # <<>>
    /\ LastProvider.fn = "perplexity"

(* C5 *)

\* the step in which the league generator's first response validates short
FirstAttemptShort ==
    /\ pc = "primary"
    /\ gen = "generateLeagueNewsFromAPI"
    /\ Len(calls') = Len(calls) + 1
    /\ calls'[Len(calls')].err = Nil
    /\ Len(content') < MinLen

\* the step that issues the escalated prompt with the same topic and fact
EscalatedCall ==
    /\ Len(calls') = Len(calls) + 1
    /\ SubSeq(calls', 1, Len(calls)) = calls
    /\ calls'[Len(calls')].fn = "gemini"
    /\ calls'[Len(calls')].template = "leagueRetry"
    /\ calls'[Len(calls')].fact = calls[Len(calls)].fact
    /\ calls'[Len(calls')].leagueName = calls[Len(calls)].leagueName
    /\ pc' \in {"returned", "fallback"}

Escalations == {i \in CallsTo("gemini") : calls[i].template = "leagueRetry"}

\* C5: a short first response of a league topic leads to the retry; the
\* retry is one escalated call of the primary, made before any call of the
\* fallback; the primary is called at most twice in a run.
C5_EscalateOnce ==
    /\ [][FirstAttemptShort => pc' = "retry"]_vars
    /\ [][pc = "retry" => EscalatedCall]_vars
    /\ [](pc = "retry" =>
            /\ Cardinality(CallsTo("gemini")) = 1
            /\ CallsTo("perplexity") = {})
    /\ [](/\ Cardinality(CallsTo("gemini")) <= 2
          /\ Cardinality(Escalations) <= 1
          /\ \A i \in Escalations : \A j \in CallsTo("perplexity") : i < j)

\* the escalated call was made, failed, and the fallback was called after it
C5_Witness ==
    /\ AfterGen
    /\ Cardinality(Escalations) = 1
    /\ Cardinality(CallsTo("gemini")) = 2
    /\ CallsTo("perplexity") # {}

(* C6 *)

\* C6: a text shorter than 100 that the escalated retry yields is not
\* returned: a success whose last provider call is the retry is at least
\* 100 long.
C6_ShortRetryFallsBack ==
    GenSucceeded /\ LastProvider.template = "leagueRetry" => Len(content) >= MinLen

(* C7 *)

\* C7: no generation path returns the empty string as success.
C7_NoEmptySuccess == GenSucceeded => content # <<>>

(* C8 *)

\* C8: when the primary failed and the fallback failed too, the generator
\* returns no text and the fallback's error, nothing is posted, and the
\* error Run returns carries the fallback's error.
C8_TerminalError ==
    \A p \in CallsTo("perplexity") :
        (calls[p].err # Nil /\ \E g \in CallsTo("gemini") : calls[g].err # Nil) =>
            /\ AfterGen
            /\ content = <<>>
            /\ err = calls[p].err
            /\ CallsTo("x") = {}
            /\ pc \in {"runReturned", "exited"} =>
                  /\ runErr # Nil
                  /\ Carries(runErr, calls[p].err)

\* both providers failed on the network and the process has exited
C8_Witness ==
    /\ pc = "exited"
    /\ \E p \in CallsTo("perplexity") : calls[p].sent /\ calls[p].err # Nil
    /\ runErr # Nil

(* C9 *)

\* C9: a text returned as success is the normalisation of one response, the
\* last one received; nothing of an earlier response is in it.
C9_OneResponse ==
    GenSucceeded =>
        content = IF LastProvider.fn = "gemini" THEN NormalizeGemini(lastRaw)
                  ELSE NormalizePerplexity(lastRaw)

\* two responses carried a text (first attempt and retry), one was returned
C9_Witness ==
    /\ GenSucceeded
    /\ Cardinality({i \in CallsTo("gemini") : calls[i].err = Nil}) = 2
    /\ content # <<>>

(* C10 *)

\* a text that passes the content policy whatever the topic: not empty, at most 280
PolicyValid(t) == t # <<>> /\ Len(t) <= MaxLen

\* C10: postToTwitter is called only with a text that passed the content
\* policy, and never in a run whose fact fetch or generation ended in an
\* error.
C10_NoPartialPublish ==
    /\ \A i \in CallsTo("x") : PolicyValid(calls[i].text)
    /\ (AfterGen /\ err # Nil) \/ pc = "panicked" => CallsTo("x") = {}

(* C11 *)

FactSources == {"football-data", "newsapi"}

\* the fact source answered with a failure or with an empty list
FactFetchFailed ==
    \E i \in 1..Len(calls) : calls[i].fn \in FactSources /\ calls[i].err # Nil

\* C11: when the fact source fails (transport error, non-200 status,
\* undecodable body, empty list) the failed fetch stays the only external call
\* of the run: no provider and no publisher call follows, no fact is put in
\* its place, the generator returns no text and an error carrying the fetch
\* failure, Run returns an error and the process exits with status 1.
C11_FetchFailureAborts ==
    FactFetchFailed =>
        /\ Len(calls) = 1
        /\ fact = NoFact
        /\ AfterGen
        /\ content = <<>>
        /\ err # Nil
        /\ Carries(err, calls[1].err)
        /\ pc \in {"runReturned", "exited"} => runErr # Nil
        /\ pc = "exited" => exitCode = 1

\* a run that ended on a failed fetch
C11_Witness ==
    /\ FactFetchFailed
    /\ pc = "exited"
    /\ exitCode = 1

(* C12 *)

\* the posting API accepted a text
Published == \E i \in CallsTo("x") : calls[i].err = Nil

\* C12: the exit code is 0 exactly when the process has exited after a
\* generator returned a text without error and the publisher accepted it;
\* every exit through a failure (configuration, bot construction, fact fetch,
\* generation, publishing) has status 1 and one logged line that carries the
\* reason: the startup error, the generator's error, or the publisher's error.
C12_ExitCode ==
    /\ exitCode = 0 <=> (pc = "exited" /\ GenSucceeded /\ Published)
    /\ pc = "exited" /\ exitCode # 0 =>
          /\ exitCode = 1
          /\ Len(logged) = 1
          /\ IF gen = ""
             THEN /\ calls = <<>>
                  /\ Len(logged[1]) > 1
                  /\ logged[1][1] \in {"Failed to load configuration",
                                       "Failed to create news bot"}
             ELSE IF err # Nil
             THEN /\ Carries(logged[1], err)
                  /\ CallsTo("x") = {}
             ELSE /\ CallsTo("x") # {}
                  /\ calls[Len(calls)].fn = "x"
                  /\ calls[Len(calls)].err # Nil
                  /\ Carries(logged[1], calls[Len(calls)].err)

\* generation succeeded, publishing failed, the process exited with status 1
C12_Witness ==
    /\ pc = "exited"
    /\ exitCode = 1
    /\ GenSucceeded
    /\ CallsTo("x") # {}

(* C13 *)

\* C13: a text the primary path returned as success is a fixed point of the
\* normalisation of that path (trim whitespace, strip quotes, truncate to 280
\* with "..."): normalising it again returns it unchanged.
C13_Idempotent ==
    GenSucceeded /\ LastProvider.fn = "gemini" => NormalizeGemini(content) = content

(* C14 *)

\* s without its first and last byte when both are a double quote, else s
StripOneLayer(s) ==
    IF Len(s) >= 2 /\ s[1] = QUOTE /\ s[Len(s)] = QUOTE
    THEN SubSeq(s, 2, Len(s) - 1)
    ELSE s

\* C14 as stated: a response of the primary that is at most 280 long after
\* trimming is returned as its trimmed text less one enclosing pair of double
\* quotes; quotes inside that pair are kept.
C14_OneQuoteLayer ==
    GenSucceeded /\ LastProvider.fn = "gemini" /\ Len(TrimSpace(lastRaw)) <= MaxLen
        => content = StripOneLayer(TrimSpace(lastRaw))

\* C14: a response of the primary that is at most 280 long after trimming is
\* returned less its surrounding whitespace and less every double quote at
\* its two ends, however many there are: the response is spaces, quotes, the
\* returned text, quotes, spaces, and the returned text neither starts nor
\* ends with a double quote.
C14_AllQuoteLayers ==
    GenSucceeded /\ LastProvider.fn = "gemini" /\ Len(TrimSpace(lastRaw)) <= MaxLen
        => LET n == Len(lastRaw)
               cut == n - Len(content)
           IN /\ cut >= 0
              /\ \E k \in 0..cut :
                    /\ content = SubSeq(lastRaw, k + 1, k + Len(content))
                    /\ \E o1 \in 0..k :
                          /\ \A j \in 1..o1 : lastRaw[j] = SP
                          /\ \A j \in (o1 + 1)..k : lastRaw[j] = QUOTE
                    /\ \E o2 \in 0..(cut - k) :
                          /\ \A j \in (n - o2 + 1)..n : lastRaw[j] = SP
                          /\ \A j \in (k + Len(content) + 1)..(n - o2) :
                                lastRaw[j] = QUOTE
              /\ content # <<>> =>
                    content[1] # QUOTE /\ content[Len(content)] # QUOTE

\* a response wrapped in two layers of quotes was returned as success
C14_Witness ==
    /\ GenSucceeded
    /\ LastProvider.fn = "gemini"
    /\ content # <<>>
    /\ Len(lastRaw) <= MaxLen
    /\ SubSeq(lastRaw, 1, 2) = <<QUOTE, QUOTE>>

(* C15 *)

\* the rotation in the order the claim lists it
TopicOrder == <<"PL", "PD", "BL1", "SA", "FL1", "IRL", Crypto>>

\* the goroutine is past the switch of Run
PastSwitch ==
    pc \in {"fetch", "prompt", "primary", "retry", "fallback", "returned", "post",
            "inDo", "runReturned", "panicked"}

\* C15: once Run of the rotation build is past its switch, exactly one
\* generator has been dispatched to, and its topic is the entry of the order
\* PL, PD, BL1, SA, FL1, IRL, crypto at position tick mod 7 (crypto exactly
\* for remainder 6); the publisher is never called before that generator has
\* made its fact-source call.
C15_TopicOfTick ==
    build = "part_000" =>
        /\ PastSwitch => gen \in RotationGens
        /\ gen # "" =>
              /\ league = TopicOrder[(tick % NumTopics) + 1]
              /\ gen = "generateCryptoNewsFromAPI" <=> tick % NumTopics = NumTopics - 1
              /\ gen = "generateLeagueNewsFromAPI" <=> tick % NumTopics < NumTopics - 1
        /\ \A i \in CallsTo("x") :
              /\ gen \in RotationGens
              /\ \E j \in 1..(i - 1) : calls[j].fn \in {"football-data", "newsapi"}

\* a tick past the end of the rotation wrapped to the first topic and was published
C15_Witness ==
    /\ build = "part_000"
    /\ tick = NumTopics
    /\ league = "PL"
    /\ CallsTo("x") # {}

(* C16 *)

\* C16: a run never waits without bound on a backend: in every state the
\* process has ended or has a next step.
C16_Terminates ==
    pc \in {"exited", "panicked"} \/ ENABLED Next

(* C17 *)

\* the keys the claim calls required
ClaimedRequired == RequiredKeysMainGo \cup {"NEWS_API_KEY"}

\* main ended in the Fatalf after loadConfig
ConfigFatal ==
    /\ pc = "exited"
    /\ exitCode = 1
    /\ Len(logged) = 1
    /\ logged[1][1] = "Failed to load configuration"

\* C17: in the rotation build, when one of GOOGLE_API_KEY, the four X
\* credentials, FOOTBALL_DATA_API_KEY and NEWS_API_KEY is empty, the step
\* after loadConfig is the fatal exit, with no generator chosen and no
\* external call made; when they are all set, loadConfig does not fail, and
\* with LIVERPOOL_NEWS_PROMPT unset the configuration holds a non-empty
\* (default) prompt.
C17_ConfigFatal ==
    build = "part_000" /\ pc # "main" =>
        IF \E k \in ClaimedRequired : ~env[k]
        THEN /\ ConfigFatal
             /\ gen = ""
             /\ calls = <<>>
        ELSE /\ ~ConfigFatal
             /\ config["LIVERPOOL_NEWS_PROMPT"]

\* the process ended on a missing NEWS_API_KEY
C17_Witness ==
    /\ build = "part_000"
    /\ ~env["NEWS_API_KEY"]
    /\ pc = "exited"

(* C18 *)

\* C18: a crypto generation that returns a text as success after a single
\* provider call, the primary's, returns one of length at least 100.
C18_CryptoMinLen ==
    /\ GenSucceeded
    /\ gen = "generateCryptoNewsFromAPI"
    /\ Cardinality(ProviderCalls) = 1
    /\ LastProvider.fn = "gemini"
    => Len(content) >= MinLen

(* C19 *)

\* the escalated call of the primary failed
RetryFailed == \E i \in Escalations : calls[i].err # Nil

\* C19: after a failed escalated call the generator is about to call the
\* fallback, or has called it as the very next call and returned exactly the
\* fallback's text and error: nothing of the first attempt's short text.
C19_RetryFailureFallsBack ==
    \A i \in Escalations :
        calls[i].err # Nil =>
            IF pc = "fallback"
            THEN Len(calls) = i
            ELSE /\ AfterGen
                 /\ Len(calls) > i
                 /\ calls[i + 1].fn = "perplexity"
                 /\ calls[i + 1].template = "football"
                 /\ content = calls[i + 1].text
                 /\ err = calls[i + 1].err
                 /\ err = Nil => content = NormalizePerplexity(lastRaw)

\* the retry failed and the generator returned the fallback's error
C19_Witness ==
    /\ RetryFailed
    /\ AfterGen
    /\ err # Nil
    /\ calls[Len(calls)].fn = "perplexity"

(* C20 *)

\* C20: in any run the primary is called at most twice and the fallback at
\* most once, the fallback only with its plain template (never an escalated
\* one), and every call of the primary comes before the call of the fallback.
C20_BoundedRetries ==
    /\ Cardinality(CallsTo("gemini")) <= 2
    /\ Cardinality(CallsTo("perplexity")) <= 1
    /\ \A p \in CallsTo("perplexity") :
          /\ calls[p].template \in {"football", "crypto"}
          /\ \A g \in CallsTo("gemini") : g < p

\* a run that used all three provider calls and ended
C20_Witness ==
    /\ pc = "exited"
    /\ Cardinality(ProviderCalls) = 3

(* C21 *)

\* C21: building the prompts never crashes: whatever match the fact source
\* returned, a date shorter than 10 bytes included, the process is never
\* stopped by a run-time panic.
C21_PromptNeverFails ==
    fact.kind = "match" => pc # "panicked"

(* C22 *)

\* s ends in a whole character: not in the lead byte of a two-byte one
WholeChars(s) == s = <<>> \/ s[Len(s)] # W1

\* C22: the limit and the cut count characters: a trimmed response of at
\* most 280 characters is returned whole, and a text that was cut is 277 whole
\* characters of the trimmed response followed by "...".
C22_CharCount ==
    GenSucceeded /\ ProviderCalls # {} =>
        /\ RuneCount(TrimmedLast) <= MaxLen => content = TrimmedLast
        /\ content # TrimmedLast =>
              LET body == SubSeq(content, 1, Len(content) - Len(Ellipsis)) IN
              /\ content = body \o Ellipsis
              /\ body = Prefix(TrimmedLast, Len(body))
              /\ WholeChars(body)
              /\ RuneCount(body) = CutLen

(* C23 *)

\* C23: once the posting API has answered, postToTwitter returned nil exactly
\* when the answer was parsed and had status 201; for a parsed answer with
\* another status its error holds that status and the first error message of
\* the answer when there is one, else the raw body; a transport, read or
\* parse failure is an error too; Run returns nil exactly when postToTwitter
\* did, and otherwise an error that carries postToTwitter's.
C23_PublishResult ==
    resp # NoResp =>
        /\ CallsTo("x") # {}
        /\ LET x == calls[Max(CallsTo("x"))] IN
           /\ x.err = Nil <=> (resp.kind = "parsed" /\ resp.status = StatusCreated)
           /\ resp.kind = "parsed" /\ resp.status # StatusCreated =>
                 /\ Len(x.err) = 3
                 /\ x.err[2] = resp.status
                 /\ x.err[3] = IF resp.hasErrors THEN "first error message"
                               ELSE "raw body"
           /\ runErr = Nil <=> x.err = Nil
           /\ x.err # Nil => Carries(runErr, x.err)

\* the API rejected the post with an error list and the process has exited
C23_Witness ==
    /\ resp.kind = "parsed"
    /\ resp.status # StatusCreated
    /\ resp.hasErrors
    /\ pc = "exited"

(* C24 *)

KeyNotSet == <<"Perplexity API key not set">>

\* C24: in the rotation build with PERPLEXITY_API_KEY unset, loadConfig does
\* not fail; a call of the fallback function (made right after a failed call
\* of the primary) sends no request and returns the key-not-set error, which
\* is the generator's result with no text; it is the last external call of
\* the run, so nothing is posted, Run returns an error carrying it and the
\* process exits with status 1.
C24_FallbackKeyUnset ==
    build = "part_000" /\ ~env["PERPLEXITY_API_KEY"] =>
        /\ pc # "main" => ~ConfigFatal
        /\ \A p \in CallsTo("perplexity") :
              /\ ~calls[p].sent
              /\ calls[p].err = KeyNotSet
              /\ p = Len(calls)
              /\ p > 1
              /\ calls[p - 1].fn = "gemini"
              /\ calls[p - 1].err # Nil
              /\ pc \in {"returned", "runReturned", "exited"}
              /\ content = <<>>
              /\ err = KeyNotSet
              /\ pc # "returned" => Carries(runErr, KeyNotSet)
              /\ pc = "exited" => exitCode = 1

\* a run without the fallback's key ended after the primary had failed
C24_Witness ==
    /\ ~env["PERPLEXITY_API_KEY"]
    /\ CallsTo("perplexity") # {}
    /\ pc = "exited"

(* C25 *)

FactCalls == {i \in 1..Len(calls) : calls[i].fn \in FactSources}

\* the record a provider call was given is the fetched one (a match with its
\* date cut to 10 bytes)
SameRecord(given, fetched) ==
    IF fetched.kind = "match"
    THEN /\ given.kind = "match"
         /\ given.home = fetched.home
         /\ given.away = fetched.away
         /\ given.homeScore = fetched.homeScore
         /\ given.awayScore = fetched.awayScore
         /\ given.utcDate = Prefix(fetched.utcDate, DateLen)
    ELSE given = fetched

\* C25: the fact source is called at most once, and exactly once, as the
\* first external call, in a run whose generator is past its fetch; every
\* provider call (first attempt, escalated retry, fallback) comes after that
\* one successful fetch and is given the record it returned; the record, once
\* fetched, never changes.
C25_FetchOnce ==
    /\ [](/\ Cardinality(FactCalls) <= 1
          /\ gen # "" /\ pc # "fetch" => FactCalls = {1}
          /\ \A i \in ProviderCalls :
                /\ i > 1
                /\ calls[1].err = Nil
                /\ fact # NoFact
                /\ SameRecord(calls[i].fact, fact))
    /\ [][fact # NoFact => fact' = fact]_vars

\* the retry and the fallback were both made, after one fetch
C25_Witness ==
    /\ AfterGen
    /\ FactCalls = {1}
    /\ Escalations # {}
    /\ CallsTo("perplexity") # {}

(* C26 *)

\* C26: the publisher is called at most once per run; its call comes after
\* every provider call and is the last external call of the run, so a failed
\* post is followed by no second post and no further generation: Run has
\* returned an error.
C26_PublishOnce ==
    /\ Cardinality(CallsTo("x")) <= 1
    /\ \A x \in CallsTo("x") :
          /\ x = Len(calls)
          /\ ProviderCalls # {}
          /\ \A p \in ProviderCalls : p < x
          /\ calls[x].err \notin {Nil, Pending} =>
                /\ pc \in {"runReturned", "exited"}
                /\ runErr # Nil

\* the request to the posting API failed and the process has exited
C26_Witness ==
    /\ pc = "exited"
    /\ calls # <<>>
    /\ calls[Len(calls)].fn = "x"
    /\ calls[Len(calls)].err = <<"failed to make request">>

=============================================================================
